---- MODULE Spec2Model ----
(***************************************************************************)
(* Model of hypernetx/drawing/two_column.py: the two-column layout         *)
(* (layout_two_column), the edge-line drawing (draw_hyper_edges) and the   *)
(* orchestration (draw).                                                   *)
(*                                                                         *)
(* Coordinates.  The layout divides by two (two_column.py:39,41), so every *)
(* coordinate is a multiple of 1/2.  The model stores each coordinate in   *)
(* half units: the stored integer c stands for the Python number c/2.      *)
(* spacing and width are integers here, offset is kept in whole units as   *)
(* the code keeps it.                                                      *)
(*                                                                         *)
(* Identifiers.  Node ids are NodeIds, hyperedge ids are EdgeIds (two      *)
(* disjoint ranges).  The Python type of an identifier (str or not) is an  *)
(* input: nodesStr / edgesStr say whether the node ids / hyperedge ids are *)
(* str objects, which is what two_column.py:50 tests.                      *)
(***************************************************************************)
EXTENDS Integers, Sequences, FiniteSets, TLC

\* ---------------------------------------------------------------- bounds
MaxNodes == 3
MaxEdges == 2
MaxWidth == 2
MaxSpacing == 1
MaxRank == 1
\* The largest number of nodes of a hypergraph laid out with a nodeorder or drawn.
MaxSmallNodes == 2

NodeIds == 1..MaxNodes
EdgeIds == (MaxNodes + 1)..(MaxNodes + MaxEdges)

\* Python's None, where a dict lookup with .get misses (two_column.py:48,52,96).
None == 0 - 1

\* The input domains of the model.
Spacings == {0 - 1} \cup (0..MaxSpacing)
Widths == 1..MaxWidth
Ranks == 0..MaxRank

VARIABLES
    nodes,            \* H.nodes: the set of node ids
    edges,            \* H.edges: hyperedge id -> the set of nodes it contains
    nodesStr,         \* the node ids are Python str objects
    edgesStr,         \* the hyperedge ids are Python str objects
    spacing,          \* layout_two_column's spacing
    width,            \* layout_two_column's width (draw's column_spacing)
    flip_orientation, \* layout_two_column's / draw's flip_orientation
    nodeorder,        \* [given |-> BOOLEAN, rank |-> the caller's mapping]
    entry,            \* "layout": layout_two_column was called; "draw": draw was
    with_color,       \* draw's with_color
    callerKwargs,     \* [given |-> BOOLEAN, d |-> the caller's edge_kwargs dict]
    edge_kwargs,      \* draw's local edge_kwargs: [alias |-> BOOLEAN, d |-> dict]
    offset,           \* layout_two_column's running offset
    pos,              \* the position map being built
    todo,             \* the components nx.connected_components has yet to yield
    hist,             \* the loop's locals, one record per finished iteration
    ax,               \* the plotting surface: the calls made on it, in order
    pc,               \* where the call is
    raised            \* the exception that ended the call, or "none"

vars == <<nodes, edges, nodesStr, edgesStr, spacing, width, flip_orientation,
          nodeorder, entry, with_color, callerKwargs, edge_kwargs, offset, pos,
          todo, hist, ax, pc, raised>>

inputs == <<nodes, edges, nodesStr, edgesStr, spacing, width, flip_orientation,
            nodeorder, entry, with_color>>

\* ------------------------------------------------------------- sequences
Range(s) == {s[i] : i \in DOMAIN s}

RECURSIVE Perms(_)
\* Every enumeration of the finite set S, as sequences without repetition.
Perms(S) ==
    IF S = {} THEN {<<>>}
    ELSE UNION {{<<x>> \o p : p \in Perms(S \ {x})} : x \in S}

RECURSIVE Ascending(_)
\* The elements of a set of integers in increasing order.
Ascending(S) ==
    IF S = {} THEN <<>>
    ELSE LET m == CHOOSE x \in S : \A y \in S : x <= y
         IN <<m>> \o Ascending(S \ {m})

\* The 1-based place of v in the sequence s (v occurs once).
IndexOf(s, v) == CHOOSE i \in DOMAIN s : s[i] = v

Max2(a, b) == IF a >= b THEN a ELSE b

\* ------------------------------------------------------- the hypergraph
\* isinstance(v, str) for a vertex of the bipartite graph.
IsStr(v) == IF v \in NodeIds THEN nodesStr ELSE edgesStr

\* H.bipartite(): the vertices are the node ids (bipartite=0) and the hyperedge
\* ids (bipartite=1); v and e are adjacent iff hyperedge e contains node v.
BipartiteVertices == nodes \cup DOMAIN edges
BipartiteTag(v) == IF v \in nodes THEN 0 ELSE 1
Adjacent(u, v) ==
    \/ u \in DOMAIN edges /\ v \in edges[u]
    \/ v \in DOMAIN edges /\ u \in edges[v]

RECURSIVE Reach(_)
\* The vertices reachable from the set S in the bipartite graph.
Reach(S) ==
    LET T == S \cup {v \in BipartiteVertices : \E u \in S : Adjacent(u, v)}
    IN IF T = S THEN S ELSE Reach(T)

\* nx.connected_components(G): the maximal connected vertex sets.
ConnectedComponents == {Reach({v}) : v \in BipartiteVertices}

\* ------------------------------------------------------------ the layout
\* two_column.py:48 and 50-52: the sort key of vertex v, given the order
\* `order` in which the component's vertices come out of the library: with no
\* nodeorder it is nx.spectral_ordering(Gi) and the key is v's place in it;
\* with a nodeorder it is Gi.nodes, edge_names are its str members, edgeorder
\* numbers them from 0, and {**nodeorder, **edgeorder} lets edgeorder win.
edge_names(order) == SelectSeq(order, IsStr)

key(order, v) ==
    IF ~nodeorder.given THEN IndexOf(order, v) - 1
    ELSE IF v \in Range(edge_names(order)) THEN IndexOf(edge_names(order), v) - 1
    ELSE IF v \in DOMAIN nodeorder.rank THEN nodeorder.rank[v]
    ELSE None

RECURSIVE Insert(_, _, _)
\* v put into the key-sorted sequence s after every element whose key is not
\* larger (sorted() is stable).
Insert(s, v, order) ==
    IF s = <<>> THEN <<v>>
    ELSE IF key(order, Head(s)) <= key(order, v)
         THEN <<Head(s)>> \o Insert(Tail(s), v, order)
         ELSE <<v>> \o s

RECURSIVE SortedFrom(_, _, _)
SortedFrom(acc, rest, order) ==
    IF rest = <<>> THEN acc
    ELSE SortedFrom(Insert(acc, Head(rest), order), Tail(rest), order)

\* two_column.py:55: the vertices of Gi.nodes with bipartite tag j, in the order
\* Gi.nodes gives them; with distinct keys (no nodeorder) the result of sorted()
\* does not depend on that order, and `order` stands for it.
Tagged(order, j) == SelectSeq(order, LAMBDA v : BipartiteTag(v) = j)

\* sorted(..., key=key) raises TypeError when it has to compare a None key,
\* which it does as soon as the list has two elements and one key is None.
SortRaises(order, j) ==
    /\ Len(Tagged(order, j)) >= 2
    /\ \E v \in Range(Tagged(order, j)) : key(order, v) = None

sorted(order, j) == SortedFrom(<<>>, Tagged(order, j), order)

\* Mutant of StackCoord: no centring term (i + offset).
StackCoord_NotCentred(i, n, x, height, flip, off) ==
    IF flip
    THEN <<2 * (i + off), 2 * x>>
    ELSE <<2 * x, 2 * (i + off)>>

\* Mutant of StackCoord: the centring term with its sign turned,
\* (len(vertices) - height) / 2.
StackCoord_SignTurned(i, n, x, height, flip, off) ==
    IF flip
    THEN <<2 * (i + off) + (n - height), 2 * x>>
    ELSE <<2 * x, 2 * (i + off) + (n - height)>>

\* Mutant of StackCoord: flip_orientation is ignored.
StackCoord_NeverFlips(i, n, x, height, flip, off) ==
    <<2 * x, 2 * (i + off) + (height - n)>>

\* two_column.py:39,41: the coordinate pair of the i-th (0-based) of the
\* vertices, in half units.
StackCoord(i, n, x, height, flip, off) ==
    IF flip
    THEN <<2 * (i + off) + (height - n), 2 * x>>
    ELSE <<2 * x, 2 * (i + off) + (height - n)>>

\* Mutant of stack: the map is started anew by every call (pos = {} inside).
stack_StartsAnew(p, vertices, x, height, flip, off) ==
    [v \in Range(vertices) |->
        StackCoord(IndexOf(vertices, v) - 1, Len(vertices), x, height, flip, off)]

\* two_column.py:36-41: stack(vertices, x, height, flip_orientation) as the map
\* it leaves in pos, with the closure's offset passed as off.
stack(p, vertices, x, height, flip, off) ==
    [v \in DOMAIN p \cup Range(vertices) |->
        IF v \in Range(vertices)
        THEN StackCoord(IndexOf(vertices, v) - 1, Len(vertices), x, height, flip, off)
        ELSE p[v]]

\* two_column.py:59
Height(ci_vertices, ci_edges) == Max2(Len(ci_vertices), Len(ci_edges))

\* Mutant of NextOffset: offset += spacing, the height forgotten.
NextOffset_NoHeight(off, height, sp) == off + sp

\* Mutant of NextOffset: offset += height, the spacing forgotten.
NextOffset_NoSpacing(off, height, sp) == off + height

\* two_column.py:63
NextOffset(off, height, sp) == off + height + sp

\* The library's possible vertex orders of component ci: every enumeration.
Orders(ci) == Perms(ci)

\* ----------------------------------------------------- draw_hyper_edges
\* H.edges() and H.nodes, and the nodes of one hyperedge, iterate in a fixed
\* order; the model takes the increasing one.
EdgeList == Ascending(DOMAIN edges)
NodeList == Ascending(nodes)

RECURSIVE PairsFrom(_)
\* two_column.py:93: [(node, edge.uid) for edge in H.edges() for node in edge],
\* for the hyperedges es.
PairsFrom(es) ==
    IF es = <<>> THEN <<>>
    ELSE LET e == Head(es)
             ns == Ascending(edges[e])
         IN [i \in 1..Len(ns) |-> <<ns[i], e>>] \o PairsFrom(Tail(es))

Pairs == PairsFrom(EdgeList)

\* A keyword value is a record: kind "scalar" with val, or kind "dict" with map;
\* an expanded one has kind "list" with list.
Scalar(x) == [kind |-> "scalar", val |-> x, map |-> <<>>, list |-> <<>>]
Dict(m) == [kind |-> "dict", val |-> 0, map |-> m, list |-> <<>>]
List(l) == [kind |-> "list", val |-> 0, map |-> <<>>, list |-> l]

\* dict.get
Get(m, k) == IF k \in DOMAIN m THEN m[k] ELSE None

\* Mutant of ExpandValue: the list is keyed by the node of each pair, not by
\* its hyperedge ([v.get(n) for n, _ in pairs]).
ExpandValue_ByNode(v, pairs) ==
    IF v.kind # "dict" THEN v
    ELSE List([i \in 1..Len(pairs) |-> Get(v.map, pairs[i][1])])

\* two_column.py:96: v if type(v) != dict else [v.get(e) for _, e in pairs]
ExpandValue(v, pairs) ==
    IF v.kind # "dict" THEN v
    ELSE List([i \in 1..Len(pairs) |-> Get(v.map, pairs[i][2])])

\* two_column.py:95-98
ExpandKwargs(kwargs, pairs) ==
    [k \in DOMAIN kwargs |-> ExpandValue(kwargs[k], pairs)]

\* two_column.py:100: the segments handed to LineCollection.
Segments(pairs, p) ==
    [i \in 1..Len(pairs) |-> <<p[pairs[i][1]], p[pairs[i][2]]>>]

\* two_column.py:100: LineCollection(..., color=edgecolor, zorder=0, **kwargs)
\* is a call that names color and zorder and also unpacks kwargs: Python raises
\* TypeError (multiple values for a keyword argument) when kwargs holds either.
LineCollectionRaises(kwargs) == \E k \in DOMAIN kwargs : k \in {"color", "zorder"}

\* ------------------------------------------------------------------ draw
\* two_column.py:258: plt.cm.tab10 has ten colours.
PaletteSize == 10

\* two_column.py:257-259: {e.uid: tab10(i % 10) for i, e in enumerate(H.edges())}
ColorCycle == [e \in DOMAIN edges |-> (IndexOf(EdgeList, e) - 1) % PaletteSize]

\* The dict that draw's local name edge_kwargs refers to.
Deref(ek) == IF ek.alias THEN callerKwargs.d ELSE ek.d

\* dict[k] = v
Store(m, k, v) == [j \in DOMAIN m \cup {k} |-> IF j = k THEN v ELSE m[j]]

\* two_column.py:243: `edge_kwargs or {}` is the caller's own dict object when
\* that is given and not empty, and a new empty dict otherwise.
EdgeKwargsLocal(ck) ==
    IF ck.given /\ DOMAIN ck.d # {}
    THEN [alias |-> TRUE, d |-> <<>>]
    ELSE [alias |-> FALSE, d |-> <<>>]

\* two_column.py:151-153 and 191-193: the annotate calls of a labeling function
\* (lowered: the row labels sit 0.15 below the position).  The default labels
\* are the identifiers.
Annotations(lowered) ==
    [i \in 1..Len(NodeList \o EdgeList) |->
        [uid |-> (NodeList \o EdgeList)[i], xy |-> pos[(NodeList \o EdgeList)[i]],
         lowered |-> lowered]]

Call(name, args) == [call |-> name, args |-> args]

\* ------------------------------------------------------------ the inputs
\* The hypergraphs whose nodes are among 1..n: every node set, every set of
\* hyperedge ids, every hyperedge any subset of the nodes (an empty one too).
HypergraphsOn(n) ==
    {h \in [nodes : SUBSET (1..n), edges : UNION {[E -> SUBSET (1..n)] : E \in SUBSET EdgeIds}] :
        \A e \in DOMAIN h.edges : h.edges[e] \subseteq h.nodes}

NoOrder == [given |-> FALSE, rank |-> <<>>]

\* A caller's nodeorder: ranks for some of the nodes, with or without keys
\* equal to the hyperedge ids.
NodeOrders(h) ==
    UNION {{[given |-> TRUE, rank |-> [v \in DOMAIN r \cup E |-> IF v \in E THEN 0 ELSE r[v]]] :
                r \in UNION {[D -> Ranks] : D \in SUBSET h.nodes}} :
           E \in {{}, DOMAIN h.edges}}

NoKwargs == [given |-> FALSE, d |-> <<>>]

\* A caller's edge_kwargs: None, {}, a scalar style, or a per-hyperedge style
\* (a dict keyed by some of the hyperedge ids).
KwargInputs(h) ==
    {NoKwargs, [given |-> TRUE, d |-> <<>>],
     [given |-> TRUE, d |-> [k \in {"linewidth"} |-> Scalar(2)]]} \cup
    {[given |-> TRUE, d |-> [k \in {"linestyle"} |-> Dict([e \in E |-> e])]] :
        E \in SUBSET DOMAIN h.edges}

\* layout_two_column called with no nodeorder: any spacing, width, orientation.
\* The identifier types are not read on this path (two_column.py:47-48).
InitGeometry ==
    /\ entry = "layout"
    /\ nodeorder = NoOrder
    /\ nodesStr = FALSE
    /\ edgesStr = TRUE
    /\ spacing \in Spacings
    /\ width \in Widths
    /\ flip_orientation \in BOOLEAN
    /\ with_color = FALSE
    /\ callerKwargs = NoKwargs

\* layout_two_column called with a nodeorder, identifiers of either type,
\* spacing and width at their defaults (two_column.py:13).
InitOrder(h) ==
    /\ entry = "layout"
    /\ nodeorder \in NodeOrders(h)
    /\ nodesStr \in BOOLEAN
    /\ edgesStr \in BOOLEAN
    /\ spacing = 0
    /\ width = 1
    /\ flip_orientation \in BOOLEAN
    /\ with_color = FALSE
    /\ callerKwargs = NoKwargs

\* draw called: it passes no spacing to the layout (two_column.py:247).
InitDraw(h) ==
    /\ entry = "draw"
    /\ nodeorder = NoOrder
    /\ nodesStr = FALSE
    /\ edgesStr = TRUE
    /\ spacing = 0
    /\ width \in Widths
    /\ flip_orientation \in BOOLEAN
    /\ with_color \in BOOLEAN
    /\ callerKwargs \in KwargInputs(h)

Init ==
    /\ \/ \E h \in HypergraphsOn(MaxNodes) :
            nodes = h.nodes /\ edges = h.edges /\ InitGeometry
       \/ \E h \in HypergraphsOn(MaxSmallNodes) :
            nodes = h.nodes /\ edges = h.edges /\ (InitOrder(h) \/ InitDraw(h))
    /\ edge_kwargs = EdgeKwargsLocal(callerKwargs)
    /\ offset = 0
    /\ pos = <<>>
    /\ todo = ConnectedComponents
    /\ hist = <<>>
    /\ ax = <<>>
    /\ pc = "layout"
    /\ raised = "none"

\* ----------------------------------------------------------- the actions
\* two_column.py:44-63: one iteration of the loop over the components.
LayoutComponent ==
    /\ pc = "layout"
    /\ \E ci \in todo : \E order \in Orders(ci) :
        IF SortRaises(order, 0) \/ SortRaises(order, 1)
        THEN /\ pc' = "raised"
             /\ raised' = "TypeError: sorted"
             /\ UNCHANGED <<offset, pos, todo, hist>>
        ELSE LET ci_vertices == sorted(order, 0)
                 ci_edges == sorted(order, 1)
                 height == Height(ci_vertices, ci_edges)
             IN /\ pos' = stack(stack(pos, ci_vertices, 0, height, flip_orientation, offset),
                                ci_edges, width, height, flip_orientation, offset)
                /\ offset' = NextOffset(offset, height, spacing)
                /\ todo' = todo \ {ci}
                /\ hist' = Append(hist, [vertices |-> ci_vertices, edges |-> ci_edges,
                                         height |-> height, offset |-> offset,
                                         found |-> IF nodeorder.given
                                                   THEN Tagged(order, 1) ELSE <<>>])
                /\ UNCHANGED <<pc, raised>>
    /\ UNCHANGED <<inputs, callerKwargs, edge_kwargs, ax>>

\* two_column.py:65: the loop is over, pos is returned (to draw, line 247).
LayoutReturn ==
    /\ pc = "layout"
    /\ todo = {}
    /\ pc' = IF entry = "layout" THEN "done" ELSE "color"
    /\ UNCHANGED <<inputs, callerKwargs, edge_kwargs, offset, pos, todo, hist, ax, raised>>

\* two_column.py:256-259: edge_kwargs["color"] = {...} writes into the dict
\* edge_kwargs refers to, which is the caller's when it is an alias.
DrawColor ==
    /\ pc = "color"
    /\ IF with_color
       THEN IF edge_kwargs.alias
            THEN /\ callerKwargs' = [callerKwargs EXCEPT
                                        !.d = Store(callerKwargs.d, "color", Dict(ColorCycle))]
                 /\ UNCHANGED edge_kwargs
            ELSE /\ edge_kwargs' = [edge_kwargs EXCEPT
                                        !.d = Store(edge_kwargs.d, "color", Dict(ColorCycle))]
                 /\ UNCHANGED callerKwargs
       ELSE UNCHANGED <<callerKwargs, edge_kwargs>>
    /\ pc' = "edges"
    /\ UNCHANGED <<inputs, offset, pos, todo, hist, ax, raised>>

\* two_column.py:261 and 91-113: draw_hyper_edges(H, pos, ..., **edge_kwargs).
\* edgecolor and nodecolor are None (draw's defaults): the circles are 'red'.
DrawHyperEdges ==
    /\ pc = "edges"
    /\ LET kwargs == ExpandKwargs(Deref(edge_kwargs), Pairs)
       IN IF LineCollectionRaises(kwargs)
          THEN /\ pc' = "raised"
               /\ raised' = "TypeError: color"
               /\ UNCHANGED ax
          ELSE /\ ax' = ax \o <<Call("lines", [segments |-> Segments(Pairs, pos),
                                                 pairs |-> Pairs,
                                                 kwargs |-> kwargs]),
                                 Call("circles", [i \in 1..Len(NodeList) |-> pos[NodeList[i]]])>>
               /\ pc' = "labels"
               /\ UNCHANGED raised
    /\ UNCHANGED <<inputs, callerKwargs, edge_kwargs, offset, pos, todo, hist>>

\* two_column.py:263-266: the labeling function of the orientation.
DrawLabels ==
    /\ pc = "labels"
    /\ ax' = Append(ax, IF flip_orientation
                        THEN Call("row_labels", Annotations(TRUE))
                        ELSE Call("column_labels", Annotations(FALSE)))
    /\ pc' = "finish"
    /\ UNCHANGED <<inputs, callerKwargs, edge_kwargs, offset, pos, todo, hist, raised>>

\* two_column.py:268-274
DrawFinish ==
    /\ pc = "finish"
    /\ ax' = ax \o <<Call("set_aspect", 1), Call("autoscale_view", 0), Call("axis_off", 0)>>
    /\ pc' = "done"
    /\ UNCHANGED <<inputs, callerKwargs, edge_kwargs, offset, pos, todo, hist, raised>>

Next ==
    \/ LayoutComponent
    \/ LayoutReturn
    \/ DrawColor
    \/ DrawHyperEdges
    \/ DrawLabels
    \/ DrawFinish

Spec == Init /\ [][Next]_vars

\* ============================================================ the claims
\* layout_two_column has returned its map (to the caller, or to draw).
LayoutReturned == pc # "layout" /\ todo = {}

\* The coordinate of v on the axis the components are stacked along, and on the
\* axis the two columns are apart on (half units).
Stk(v) == IF flip_orientation THEN pos[v][1] ELSE pos[v][2]
Col(v) == IF flip_orientation THEN pos[v][2] ELSE pos[v][1]

\* The vertices laid out by the k-th iteration.
Members(k) == Range(hist[k].vertices) \cup Range(hist[k].edges)

RECURSIVE SumHeights(_)
\* The sum of height + spacing over the first k iterations.
SumHeights(k) == IF k = 0 THEN 0 ELSE SumHeights(k - 1) + hist[k].height + spacing

\* --- C1.  When layout_two_column returns, the keys of the map are exactly the
\* node ids and the hyperedge ids of H, each vertex was assigned by exactly one
\* iteration of the component loop, and an empty H gives the empty map.
C1_KeySet ==
    LayoutReturned =>
        /\ DOMAIN pos = nodes \cup DOMAIN edges
        /\ \A v \in nodes \cup DOMAIN edges :
              Cardinality({k \in DOMAIN hist : v \in Members(k)}) = 1
        /\ (nodes \cup DOMAIN edges = {} => pos = <<>>)

C1_Witness ==
    /\ LayoutReturned
    /\ Len(hist) >= 2
    /\ Cardinality(nodes) >= 2
    /\ Cardinality(DOMAIN edges) >= 2
    /\ \E k \in DOMAIN hist : Cardinality(Members(k)) >= 3

\* --- C2.  With spacing >= 0 the components do not overlap on the stacking
\* axis: every coordinate of an iteration lies in [offset, offset + height - 1]
\* of that iteration, the offsets strictly increase, and every vertex of an
\* earlier iteration lies strictly below every vertex of a later one.
C2_NoOverlap ==
    spacing >= 0 =>
        /\ \A k \in DOMAIN hist : \A v \in Members(k) :
              /\ 2 * hist[k].offset <= Stk(v)
              /\ Stk(v) <= 2 * (hist[k].offset + hist[k].height - 1)
        /\ \A j, k \in DOMAIN hist :
              j < k =>
                 /\ hist[j].offset < hist[k].offset
                 /\ \A u \in Members(j), v \in Members(k) : Stk(u) < Stk(v)

C2_Witness ==
    /\ spacing >= 0
    /\ Len(hist) >= 2
    /\ hist[1].height >= 2
    /\ Len(hist[1].vertices) # Len(hist[1].edges)
    /\ Cardinality(Members(2)) >= 2

\* The node column (j = 0) or the hyperedge column (j = 1) of the k-th iteration.
C3_ColumnOf(k, j) == IF j = 0 THEN hist[k].vertices ELSE hist[k].edges

\* --- C3.  In one component each column of n items sits at
\* offset + i + (height - n)/2, i = 0..n-1 in rank order, with
\* height = max(#nodes, #hyperedges): no two items of a column share a
\* coordinate, neighbours are 1 apart, and both columns are centred on the
\* midline offset + (height - 1)/2.
C3_Stacking ==
    \A k \in DOMAIN hist : \A j \in {0, 1} :
        LET col == C3_ColumnOf(k, j)
            n == Len(col)
            h == Max2(Len(hist[k].vertices), Len(hist[k].edges))
            off == hist[k].offset
        IN /\ \A i \in 1..n : Stk(col[i]) = 2 * (off + (i - 1)) + (h - n)
           /\ \A i, m \in 1..n : i # m => Stk(col[i]) # Stk(col[m])
           /\ \A i \in 1..(n - 1) : Stk(col[i + 1]) - Stk(col[i]) = 2
           /\ n > 0 => Stk(col[1]) + Stk(col[n]) = 2 * (2 * off + (h - 1))

C3_Witness ==
    \E k \in DOMAIN hist :
        /\ hist[k].offset > 0
        /\ Len(hist[k].vertices) >= 2
        /\ Len(hist[k].edges) = 1

\* The scenario of C4: H with nodes {a, b} and the one hyperedge e = {a, b},
\* laid out not flipped.
C4_Scenario ==
    /\ LayoutReturned
    /\ ~flip_orientation
    /\ nodes = {1, 2}
    /\ Cardinality(DOMAIN edges) = 1
    /\ \A e \in DOMAIN edges : edges[e] = {1, 2}

\* --- C4 as stated.  In the scenario the map has 2 node entries, 1 edge entry, the height
\* is 2, a and b are in the column x = 0, and e is in the column x = width at
\* (1 - 2)/2 = -0.5 from the offset 0.
C4_AsStated ==
    C4_Scenario =>
        /\ Cardinality(DOMAIN pos \cap nodes) = 2
        /\ Cardinality(DOMAIN pos \cap DOMAIN edges) = 1
        /\ hist[1].height = 2
        /\ \A v \in nodes : pos[v][1] = 0
        /\ \A e \in DOMAIN edges : pos[e] = <<2 * width, 2 * hist[1].offset - 1>>

\* --- C4 amended.  As stated, but e sits at (2 - 1)/2 = +0.5 from the offset 0.
C4_Amended ==
    C4_Scenario =>
        /\ Cardinality(DOMAIN pos \cap nodes) = 2
        /\ Cardinality(DOMAIN pos \cap DOMAIN edges) = 1
        /\ Len(hist) = 1 /\ hist[1].height = 2 /\ hist[1].offset = 0
        /\ \A v \in nodes : pos[v][1] = 0
        /\ \A e \in DOMAIN edges : pos[e] = <<2 * width, 1>>

C4_Witness == C4_Scenario /\ width = MaxWidth

\* H with the two disjoint hyperedges e1 = {a}, e2 = {b}.
C5_TwoDisjointEdges ==
    /\ nodes = {1, 2}
    /\ Cardinality(DOMAIN edges) = 2
    /\ {edges[e] : e \in DOMAIN edges} = {{1}, {2}}

\* --- C5.  The offset of the k-th iteration is the sum of height + spacing
\* over the earlier ones (0 for the first); and for H with the two disjoint
\* hyperedges e1 = {a}, e2 = {b} the second component has offset 1 + spacing
\* and both its vertices sit at 1 + spacing.
C5_Offsets ==
    /\ \A k \in DOMAIN hist : hist[k].offset = SumHeights(k - 1)
    /\ offset = SumHeights(Len(hist))
    /\ (C5_TwoDisjointEdges /\ Len(hist) = 2) =>
          /\ hist[2].offset = 1 + spacing
          /\ \A v \in Members(2) : Stk(v) = 2 * (1 + spacing)

C5_Witness ==
    /\ C5_TwoDisjointEdges
    /\ LayoutReturned
    /\ Len(hist) = 2
    /\ spacing = MaxSpacing

RECURSIVE C6_Relayout(_, _)
\* The map the loop builds over the first k components of hist (their sorted
\* columns, heights and offsets) when flip_orientation is flip.
C6_Relayout(k, flip) ==
    IF k = 0 THEN <<>>
    ELSE stack(stack(C6_Relayout(k - 1, flip), hist[k].vertices, 0, hist[k].height,
                     flip, hist[k].offset),
               hist[k].edges, width, hist[k].height, flip, hist[k].offset)

\* --- C6.  The map of the flipped call is the transpose of the map of the
\* unflipped call on the same H, spacing, width and per-component orderings:
\* the same keys, the two coordinates of every vertex exchanged; flipped, the
\* nodes have second coordinate 0 and the hyperedges second coordinate width.
C6_FlipTransposes ==
    LayoutReturned =>
        LET other == C6_Relayout(Len(hist), ~flip_orientation)
        IN /\ DOMAIN other = DOMAIN pos
           /\ \A v \in DOMAIN pos : other[v] = <<pos[v][2], pos[v][1]>>
           /\ flip_orientation =>
                 /\ \A v \in nodes : pos[v][2] = 0
                 /\ \A e \in DOMAIN edges : pos[e][2] = 2 * width

C6_Witness ==
    /\ LayoutReturned
    /\ flip_orientation
    /\ Len(hist) >= 2
    /\ \E v \in DOMAIN pos : pos[v][1] # pos[v][2]
    /\ \E k \in DOMAIN hist : Len(hist[k].vertices) # Len(hist[k].edges)

\* draw_hyper_edges has handed its segments and keywords to LineCollection.
C7_LinesDrawn == Len(ax) >= 1 /\ ax[1].call = "lines"

C8_CallNames == [i \in DOMAIN ax |-> ax[i].call]

\* --- C8.  draw with with_color (and no nodeorder) raises nothing and, when it
\* is over, has made its calls on the plotting surface in order: the lines (with
\* the colour i mod 10 for the i-th hyperedge), the circles, the labels of the
\* orientation, set_aspect, autoscale_view, axis off.
C8_RunsToCompletion ==
    (entry = "draw" /\ with_color) =>
        /\ pc # "raised"
        /\ pc = "done" =>
              /\ C8_CallNames = <<"lines", "circles",
                                  IF flip_orientation THEN "row_labels" ELSE "column_labels",
                                  "set_aspect", "autoscale_view", "axis_off">>
              /\ ax[1].args.kwargs["color"] =
                    List([i \in 1..Len(Pairs) |->
                             (IndexOf(EdgeList, Pairs[i][2]) - 1) % PaletteSize])

\* --- C9.  A call leaves every argument but the axis as it was: H, the
\* nodeorder mapping and the caller's edge_kwargs dict are never written.
C9_ArgumentsUntouched ==
    [][/\ callerKwargs' = callerKwargs
       /\ nodes' = nodes
       /\ edges' = edges
       /\ nodeorder' = nodeorder]_vars

\* --- C10.  With a nodeorder that ranks every node, whatever the identifier
\* types and whether or not the nodeorder has keys equal to hyperedge ids, the
\* node column of every component is in non-decreasing order of the nodeorder
\* ranks and the hyperedge column is in the hyperedges' discovery order.
C10_SortedByNodeorder ==
    (LayoutReturned /\ nodeorder.given /\ nodes \subseteq DOMAIN nodeorder.rank) =>
        \A k \in DOMAIN hist :
            /\ \A i, j \in DOMAIN hist[k].vertices :
                  i < j => nodeorder.rank[hist[k].vertices[i]]
                              <= nodeorder.rank[hist[k].vertices[j]]
            /\ hist[k].edges = hist[k].found
====
